---- MODULE Spec2Model ----
(***************************************************************************)
(* Model of the collect_slice crate (src/src/lib.rs): the CollectSlice     *)
(* trait and its blanket implementation for every Iterator.                *)
(*                                                                         *)
(* A caller owns one source iterator and, per call, one destination slice. *)
(* It invokes collect_slice, collect_slice_fill, collect_slice_exhaust or  *)
(* collect_slice_checked, or pulls an item from the iterator itself.       *)
(* collect_slice is modelled one fold iteration at a time; each wrapper's  *)
(* assertion is a step of its own that either returns or panics.           *)
(***************************************************************************)
EXTENDS Integers, Sequences, FiniteSets, TLC

\* ---------------------------------------------------------------- bounds
MaxL == 2        \* longest destination slice
MaxSrc == 3      \* longest script of yields that defines a source
MaxCalls == 2    \* operations the caller performs on one source

\* ---------------------------------------------------------------- values
\* Option<Item>: None is the empty sequence, Some(v) the one-element one.
None == <<>>
Some(v) == <<v>>

ItemVals == {1, 2}      \* items a source can yield
SlotVals == {0, 1}      \* values a slice can hold before a call

Min(a, b) == IF a <= b THEN a ELSE b

SeqsUpTo(S, n) == UNION {[1..k -> S] : k \in 0..n}

\* A source is the script of the yields it still has to make (items and
\* end signals).  A source that is not cyclic signals end forever once the
\* script is over; a cyclic one puts each yield back at the end of the
\* script (an unending source, or one that yields again after it signalled
\* end).
Sources ==
    {[rest |-> s, cyc |-> c] :
        s \in SeqsUpTo({Some(v) : v \in ItemVals} \cup {None}, MaxSrc),
        c \in BOOLEAN}

Slices == SeqsUpTo(SlotVals, MaxL)

\* ------------------------------------------------------- Iterator::next
\* self.next(): the yield and the iterator after it.
IterNext(it) ==
    IF it.rest = <<>>
    THEN [item |-> None, iter |-> it]
    ELSE [item |-> Head(it.rest),
          iter |-> [it EXCEPT !.rest = IF it.cyc
                                       THEN Tail(it.rest) \o <<Head(it.rest)>>
                                       ELSE Tail(it.rest)]]

\* ------------------------------------------- slice.iter_mut().zip(self)
\* Zip::next as a plausible slip would have it: the source is asked first,
\* the slice second (self.zip(slice.iter_mut())).
ZipNextSourceFirst(idx, slice, it) ==
    LET r == IterNext(it) IN
    IF r.item = None
    THEN [some |-> FALSE, idx |-> idx, item |-> None, iter |-> r.iter,
          asked |-> 1]
    ELSE IF idx >= Len(slice)
         THEN [some |-> FALSE, idx |-> idx, item |-> None, iter |-> r.iter,
               asked |-> 1]
         ELSE [some |-> TRUE, idx |-> idx + 1, item |-> r.item,
               iter |-> r.iter, asked |-> 1]

\* Zip::next: the slice iterator is asked first; the source is asked only
\* when the slice still has a slot.  idx is the slice iterator's position,
\* asked the number of requests made on the source.
ZipNext(idx, slice, it) ==
    IF idx >= Len(slice)
    THEN [some |-> FALSE, idx |-> idx, item |-> None, iter |-> it,
          asked |-> 0]
    ELSE LET r == IterNext(it) IN
         IF r.item = None
         THEN [some |-> FALSE, idx |-> idx + 1, item |-> None,
               iter |-> r.iter, asked |-> 1]
         ELSE [some |-> TRUE, idx |-> idx + 1, item |-> r.item,
               iter |-> r.iter, asked |-> 1]

\* The fold closure with slips: the item lands in the slot after the one
\* zip handed out (when there is one) ...
FoldBodyShifted(acc, slice, idx, item) ==
    [count |-> acc + 1,
     slice |-> IF idx + 1 <= Len(slice)
               THEN [slice EXCEPT ![idx + 1] = item[1]] ELSE slice]

\* ... or it lands in its slot and also in the next one.
FoldBodySpill(acc, slice, idx, item) ==
    [count |-> acc + 1,
     slice |-> [k \in 1..Len(slice) |->
                   IF k = idx \/ k = idx + 1 THEN item[1] ELSE slice[k]]]

\* The fold closure |count, (dest, item)| { *dest = item; count + 1 }.
\* idx is the 1-based slot zip handed out as dest.
FoldBody(acc, slice, idx, item) ==
    [count |-> acc + 1, slice |-> [slice EXCEPT ![idx] = item[1]]]

\* collect_slice run to completion on values: the fold over the zip.
RECURSIVE Fold(_, _, _, _)
Fold(idx, acc, slice, it) ==
    LET z == ZipNext(idx, slice, it) IN
    IF z.some
    THEN LET b == FoldBody(acc, slice, z.idx, z.item) IN
         Fold(z.idx, b.count, b.slice, z.iter)
    ELSE [count |-> acc, slice |-> slice, iter |-> z.iter]

collect_slice(it, slice) == Fold(0, 0, slice, it)

\* The wrappers' assertions, each after a slip that lets everything pass.
FillAssertLax(n, slice) == n <= Len(slice)
ExhaustAssertLax(item) == Len(item) <= 1
CheckedAssertLax(n, slice) == n <= Len(slice)

\* assert_eq!(self.collect_slice(slice), slice.len())
FillAssert(n, slice) == n = Len(slice)
\* assert!(self.next().is_none())
ExhaustAssert(item) == item = None
\* assert_eq!(self.collect_slice_exhaust(slice), slice.len())
CheckedAssert(n, slice) == n = Len(slice)

\* ----------------------------------------------------------------- state
VARIABLES
    iter,     \* the source iterator
    slice,    \* the destination slice of the current (or last) call
    op,       \* the operation in progress, or the last one once pc = "idle"
    pc,       \* "idle", "fold", "fill_assert", "exhaust_next",
              \* "checked_assert" or "panicked"
    idx,      \* position of slice.iter_mut()
    count,    \* the fold's accumulator, then collect_slice's return value
    ret,      \* what the last operation returned (None for ())
    iter0,    \* the iterator as it was when the operation was called
    slice0,   \* the slice as it was when the operation was called
    reqs,     \* next() requests the operation has made on the source
    prev,     \* the collect_slice call that returned just before the
              \* operation, if there is one
    ncalls    \* operations the caller has started

vars == <<iter, slice, op, pc, idx, count, ret, iter0, slice0, reqs, prev,
          ncalls>>

Ops == {"collect_slice", "collect_slice_fill", "collect_slice_exhaust",
        "collect_slice_checked"}

NoCall ==
    [op |-> "none", ret |-> None, slice |-> <<>>, slice0 |-> <<>>,
     iter0 |-> [rest |-> <<>>, cyc |-> FALSE]]

Snapshot ==
    IF op = "collect_slice"
    THEN [op |-> op, ret |-> ret, slice |-> slice, slice0 |-> slice0,
          iter0 |-> iter0]
    ELSE NoCall

Init ==
    /\ iter \in Sources
    /\ slice = <<>>
    /\ op = "none"
    /\ pc = "idle"
    /\ idx = 0
    /\ count = 0
    /\ ret = None
    /\ iter0 = iter
    /\ slice0 = <<>>
    /\ reqs = 0
    /\ prev = NoCall
    /\ ncalls = 0

\* The caller invokes trait method o on the iterator with destination s;
\* every method starts by running collect_slice's fold from (0, 0).
Enter(o, s) ==
    /\ pc = "idle"
    /\ ncalls < MaxCalls
    /\ op' = o
    /\ slice' = s
    /\ slice0' = s
    /\ iter0' = iter
    /\ prev' = Snapshot
    /\ idx' = 0
    /\ count' = 0
    /\ pc' = "fold"
    /\ reqs' = 0
    /\ ncalls' = ncalls + 1
    /\ UNCHANGED <<iter, ret>>

CallCollectSlice == \E s \in Slices : Enter("collect_slice", s)
CallCollectSliceFill == \E s \in Slices : Enter("collect_slice_fill", s)
CallCollectSliceExhaust == \E s \in Slices : Enter("collect_slice_exhaust", s)
CallCollectSliceChecked == \E s \in Slices : Enter("collect_slice_checked", s)

\* One iteration of the fold: zip yields a (dest, item) pair and the closure
\* stores it.
FoldStep ==
    /\ pc = "fold"
    /\ LET z == ZipNext(idx, slice, iter) IN
       /\ z.some
       /\ LET b == FoldBody(count, slice, z.idx, z.item) IN
          /\ slice' = b.slice
          /\ count' = b.count
       /\ idx' = z.idx
       /\ iter' = z.iter
       /\ reqs' = reqs + z.asked
    /\ UNCHANGED <<op, pc, ret, iter0, slice0, prev, ncalls>>

\* zip yields None: the fold is over and collect_slice returns count, to
\* the caller or into the wrapper that called it.
FoldReturn ==
    /\ pc = "fold"
    /\ LET z == ZipNext(idx, slice, iter) IN
       /\ ~z.some
       /\ idx' = z.idx
       /\ iter' = z.iter
       /\ reqs' = reqs + z.asked
    /\ IF op = "collect_slice"
       THEN pc' = "idle" /\ ret' = Some(count)
       ELSE /\ pc' = (IF op = "collect_slice_fill" THEN "fill_assert"
                                                  ELSE "exhaust_next")
            /\ ret' = ret
    /\ UNCHANGED <<slice, op, count, iter0, slice0, prev, ncalls>>

\* collect_slice_fill: assert_eq!(count, slice.len()).
FillCheck ==
    /\ pc = "fill_assert"
    /\ IF FillAssert(count, slice)
       THEN pc' = "idle" /\ ret' = None
       ELSE pc' = "panicked" /\ ret' = ret
    /\ UNCHANGED <<iter, slice, op, idx, count, iter0, slice0, reqs, prev,
                   ncalls>>

\* collect_slice_exhaust: assert!(self.next().is_none()); count.
ExhaustCheck ==
    /\ pc = "exhaust_next"
    /\ LET r == IterNext(iter) IN
       /\ iter' = r.iter
       /\ IF ExhaustAssert(r.item)
          THEN IF op = "collect_slice_exhaust"
               THEN pc' = "idle" /\ ret' = Some(count)
               ELSE pc' = "checked_assert" /\ ret' = ret
          ELSE pc' = "panicked" /\ ret' = ret
    /\ reqs' = reqs + 1
    /\ UNCHANGED <<slice, op, idx, count, iter0, slice0, prev, ncalls>>

\* collect_slice_checked: assert_eq!(count, slice.len()).
CheckedCheck ==
    /\ pc = "checked_assert"
    /\ IF CheckedAssert(count, slice)
       THEN pc' = "idle" /\ ret' = None
       ELSE pc' = "panicked" /\ ret' = ret
    /\ UNCHANGED <<iter, slice, op, idx, count, iter0, slice0, reqs, prev,
                   ncalls>>

\* Between calls the caller pulls the next yield from the iterator itself.
CallerNext ==
    /\ pc = "idle"
    /\ ncalls < MaxCalls
    /\ LET r == IterNext(iter) IN
       /\ iter' = r.iter
       /\ ret' = r.item
    /\ op' = "next"
    /\ prev' = Snapshot
    /\ iter0' = iter
    /\ reqs' = 1
    /\ ncalls' = ncalls + 1
    /\ UNCHANGED <<slice, pc, idx, count, slice0>>

Next ==
    \/ CallCollectSlice
    \/ CallCollectSliceFill
    \/ CallCollectSliceExhaust
    \/ CallCollectSliceChecked
    \/ FoldStep
    \/ FoldReturn
    \/ FillCheck
    \/ ExhaustCheck
    \/ CheckedCheck
    \/ CallerNext

Spec == Init /\ [][Next]_vars

\* The program runs: a call in progress takes its next step.
FairSpec ==
    Spec /\ WF_vars(FoldStep \/ FoldReturn \/ FillCheck \/ ExhaustCheck
                    \/ CheckedCheck)

TypeOK ==
    /\ pc \in {"idle", "fold", "fill_assert", "exhaust_next",
               "checked_assert", "panicked"}
    /\ op \in Ops \cup {"none", "next"}
    /\ slice \in SeqsUpTo(SlotVals \cup ItemVals, MaxL)
    /\ slice0 \in Slices
    /\ Len(slice) = Len(slice0)
    /\ idx \in 0..Len(slice)
    /\ count \in 0..Len(slice)
    /\ reqs \in 0..(Len(slice) + 1)
    /\ ncalls \in 0..MaxCalls

\* ------------------------------------------------ vocabulary of the claims
\* The next n yields of an iterator, end signals included.
RECURSIVE Yields(_, _)
Yields(it, n) ==
    IF n = 0 THEN <<>>
    ELSE LET r == IterNext(it) IN <<r.item>> \o Yields(r.iter, n - 1)

\* The k-th next yield of an iterator.
Yield(it, k) == Yields(it, k)[k]

\* The items among a sequence of yields, in order.
RECURSIVE ItemsIn(_)
ItemsIn(ys) ==
    IF ys = <<>> THEN <<>>
    ELSE (IF Head(ys) = None THEN <<>> ELSE <<Head(ys)[1]>>) \o ItemsIn(Tail(ys))

\* The items an iterator yields before it first signals end, at most n.
RECURSIVE Prefix(_, _)
Prefix(it, n) ==
    IF n = 0 THEN <<>>
    ELSE LET r == IterNext(it) IN
         IF r.item = None THEN <<>> ELSE <<r.item[1]>> \o Prefix(r.iter, n - 1)

\* Lengths are compared with slice lengths up to 2 * MaxL only, so a source
\* is followed for Cap yields: a length of Cap stands for "Cap or more".
Cap == 2 * MaxL + 1
Horizon == 2 * MaxSrc + 1

LengthOf(it) == Len(Prefix(it, Cap))

\* The source keeps signalling end once it has signalled end.
Fused(it) ==
    \A k \in 1..(Horizon - 1) :
        Yield(it, k) = None => Yield(it, k + 1) = None

Drop(s, n) == IF n >= Len(s) THEN <<>> ELSE SubSeq(s, n + 1, Len(s))

\* Of the operation in progress (or just over): the source's items and
\* length m at the call, the slice length L, the requests made so far.
Items0 == Prefix(iter0, Cap)
M == Len(Items0)
L == Len(slice)
Reqs == reqs

Returned(o) == pc = "idle" /\ op = o
Panicked(o) == pc = "panicked" /\ op = o

\* C1: when collect_slice returns, it returns min(m, L) and slot i holds the
\* i-th item the source produced, for every i below that count.
C1_ReturnsMinAndCopiesPrefix ==
    Returned("collect_slice") =>
        /\ ret = Some(Min(M, L))
        /\ \A i \in 1..Min(M, L) : slice[i] = Items0[i]

C1_Witness ==
    /\ Returned("collect_slice")
    /\ L = 2
    /\ M >= 2
    /\ slice = <<1, 2>>
    /\ slice0 = <<0, 0>>

\* C2: when collect_slice returns, every slot at or beyond the returned
\* count holds the value it held before the call.
C2_RestUntouched ==
    Returned("collect_slice") =>
        \A i \in 1..L : i > ret[1] => slice[i] = slice0[i]

C2_Witness ==
    /\ Returned("collect_slice")
    /\ ret = Some(1)
    /\ L = 2
    /\ slice[1] = 2
    /\ slice0[1] # 2
    /\ slice[2] = 0

\* C3: collect_slice advances the source by exactly count items: the items
\* the source yields after the call are its items from index count on, and
\* after a call with m > L the caller's next pull is the (L+1)-th item.
C3_SourceAdvancedByCount ==
    /\ Returned("collect_slice") =>
           ItemsIn(Yields(iter, Horizon))
               = Drop(ItemsIn(Yields(iter0, Reqs + Horizon)), ret[1])
    /\ (Returned("next") /\ prev.op = "collect_slice"
          /\ LengthOf(prev.iter0) > Len(prev.slice)) =>
           ret = Some(Prefix(prev.iter0, Cap)[Len(prev.slice) + 1])

C3_Witness ==
    /\ Returned("next")
    /\ prev.op = "collect_slice"
    /\ Len(prev.slice) = 1
    /\ LengthOf(prev.iter0) > 1
    /\ prev.slice = <<1>>
    /\ ret = Some(2)

\* C4: collect_slice_fill completes only if m >= L and panics only if
\* m < L, whatever the source has left.
C4_FillIffEnough ==
    /\ Returned("collect_slice_fill") => M >= L
    /\ Panicked("collect_slice_fill") => M < L

C4_Witness ==
    /\ Returned("collect_slice_fill")
    /\ L = 2
    /\ M > L
    /\ slice0 = <<0, 0>>
    /\ slice = <<1, 2>>

\* C5 as stated: collect_slice_exhaust completes if and only if m <= L,
\* panics if and only if m > L, and returns m when it completes.
C5_ExhaustIffFits ==
    /\ Returned("collect_slice_exhaust") => (M <= L /\ ret = Some(M))
    /\ Panicked("collect_slice_exhaust") => M > L

\* C5 amended: collect_slice_exhaust completes if and only if m = L, or
\* m < L and the request after the source's end signal signals end again;
\* it panics if and only if m > L, or m < L and that request yields an
\* item; it returns m when it completes.
C5_ExhaustIffFitsAndStaysEnded ==
    /\ Returned("collect_slice_exhaust") =>
           /\ M <= L
           /\ ret = Some(M)
           /\ M < L => Yield(iter0, M + 2) = None
    /\ Panicked("collect_slice_exhaust") =>
           \/ M > L
           \/ M < L /\ Yield(iter0, M + 2) # None

C5_Witness ==
    /\ Panicked("collect_slice_exhaust")
    /\ M = 1
    /\ L = 2
    /\ slice[1] = Items0[1]

\* C6: collect_slice_checked completes only if m = L, and then every slot
\* holds the source's items in order; it panics only if m # L.
C6_CheckedIffExact ==
    /\ Returned("collect_slice_checked") => (M = L /\ slice = Items0)
    /\ Panicked("collect_slice_checked") => M # L

C6_Witness ==
    /\ Returned("collect_slice_checked")
    /\ slice0 = <<0, 0>>
    /\ slice = <<1, 2>>
    /\ Reqs = 3

\* C7: collect_slice terminates on every source, makes at most L requests,
\* makes none once the slice is full, and stops only when the source has
\* signalled end or the slice is full.
C7_TerminatesBoundedRequests ==
    /\ [](pc = "fold" => Reqs <= L)
    /\ [][(pc = "fold" /\ count = L) => (reqs' = reqs /\ iter' = iter)]_vars
    /\ [][(pc = "fold" /\ pc' # "fold") =>
            (count = L \/ IterNext(iter).item = None)]_vars
    /\ (pc = "fold") ~> (pc # "fold")

C7_Witness ==
    /\ Returned("collect_slice")
    /\ iter0.cyc
    /\ iter0.rest = <<Some(1), Some(2)>>
    /\ L = 2
    /\ Reqs = 2
    /\ iter = iter0

\* C8: a wrapper panics after the copy.  fill or checked panicking with
\* m < L leaves the m items in slots [0, m); exhaust or checked panicking
\* with m > L leaves the first L items in the slice and has taken exactly
\* L + 1 items from the source.
C8_PanicAfterCopy ==
    /\ (pc = "panicked" /\ op \in {"collect_slice_fill", "collect_slice_checked"}
          /\ M < L) =>
           \A i \in 1..M : slice[i] = Items0[i]
    /\ (pc = "panicked" /\ op \in {"collect_slice_exhaust", "collect_slice_checked"}
          /\ M > L) =>
           /\ slice = SubSeq(Items0, 1, L)
           /\ Reqs = L + 1
           /\ Len(ItemsIn(Yields(iter0, Reqs))) = L + 1

C8_Witness ==
    /\ Panicked("collect_slice_checked")
    /\ L = 1
    /\ M > 1
    /\ slice0 = <<0>>
    /\ slice = <<2>>
    /\ Reqs = 2

\* C9: collect_slice makes m + 1 requests when m < L and L when m >= L;
\* collect_slice_exhaust makes one more; with m < L that one comes after the
\* end signal, and collect_slice_exhaust completes only if it signals end.
RequestsOfCollect == IF M < L THEN Min(M, L) + 1 ELSE L

C9_RequestCounts ==
    /\ Returned("collect_slice") => Reqs = RequestsOfCollect
    /\ (op = "collect_slice_exhaust" /\ pc \in {"idle", "panicked"}) =>
           /\ Reqs = RequestsOfCollect + 1
           /\ M < L => /\ Yield(iter0, M + 1) = None
                       /\ (pc = "idle") <=> (Yield(iter0, M + 2) = None)

C9_Witness ==
    /\ Panicked("collect_slice_exhaust")
    /\ M = 0
    /\ L = 1
    /\ Reqs = 2
    /\ Yield(iter0, 2) # None

\* C10: two collect_slice calls in a row on a source that stays ended
\* return min(m, L1) and min(m - c1, L2); when c1 = L1 the two slices read
\* one after the other equal what one collect_slice into a slice of length
\* L1 + L2 leaves, and the source ends where that one call leaves it.
C10_ConsecutiveCallsCompose ==
    (Returned("collect_slice") /\ prev.op = "collect_slice"
       /\ Fused(prev.iter0)) =>
        LET m == LengthOf(prev.iter0)
            c1 == prev.ret[1]
            c2 == ret[1]
            single == collect_slice(prev.iter0, prev.slice0 \o slice0)
        IN  /\ c1 = Min(m, Len(prev.slice))
            /\ c2 = Min(m - c1, L)
            /\ c1 = Len(prev.slice) => prev.slice \o slice = single.slice
            /\ Yields(iter, Horizon) = Yields(single.iter, Horizon)

C10_Witness ==
    /\ Returned("collect_slice")
    /\ prev.op = "collect_slice"
    /\ Fused(prev.iter0)
    /\ prev.slice = <<1>>
    /\ prev.ret = Some(1)
    /\ slice0 = <<0, 1>>
    /\ slice = <<2, 1>>
    /\ ret = Some(1)
====
